---------------------------- MODULE Spec2Model ----------------------------
(***************************************************************************)
(* Model of the CRC teaching tool: the ProblemSolver component             *)
(* (src/src/components/ProblemSolver.tsx) and the CRCEncoder component     *)
(* (src/src/components/CRCEncoder.tsx).                                    *)
(*                                                                         *)
(* A JavaScript string is a sequence of one-character strings, a number    *)
(* is an integer, and the result of parseInt is a record that is either    *)
(* NaN or a number.  The bitwise operators work on 32-bit two's            *)
(* complement integers, as in JavaScript.                                  *)
(***************************************************************************)
EXTENDS Integers, Sequences, FiniteSets, TLC

(***************************************************************************)
(* Bounds of the model.                                                    *)
(***************************************************************************)
\* longest '0'/'1' string given to the division functions
MaxBits == 8
\* longest string with foreign characters given to the division functions
MaxDirty == 2
\* largest single bit position typed into the Error Positions input
MaxPosition == 8
\* longest word given to the verifiers in SpecVerify
MaxShort == 5
\* longest data string divided by the wide generators in SpecWide
MaxWideBits == 3
\* every hexadecimal string of up to MaxHex digits is converted in SpecHex
MaxHex == 2
\* longest word typed into the decoder's input in SpecDecoder
MaxTest == 7
\* longest data string of the divisions run step by step in SpecLoop
MaxLoopBits == 6

(***************************************************************************)
(* Strings.                                                                *)
(***************************************************************************)
BinChars == {"0", "1"}
DecChars == {"0", "1", "2", "3", "4", "5", "6", "7", "8", "9"}
HexChars == DecChars \cup {"A", "B", "C", "D", "E", "F", "a", "b", "c", "d", "e", "f"}

\* every string over alphabet cs of length at most n
StringsUpTo(cs, n) == UNION {[1..k -> cs] : k \in 0..n}

\* the one element of a singleton set; {e(v) : v \in {x}} evaluates x once and
\* binds its value, which keeps the evaluation of a long loop shallow
TheValue(S) == CHOOSE v \in S : TRUE

\* String.prototype.repeat for a one-character string
Repeat(c, n) == [i \in 1..n |-> c]

\* String.prototype.padStart(n, "0")
PadStart(s, n) == IF Len(s) >= n THEN s ELSE Repeat("0", n - Len(s)) \o s

\* /^[01]+$/.test(s)
IsBinaryText(s) == Len(s) > 0 /\ \A i \in 1..Len(s) : s[i] \in BinChars

\* /^[0-9A-Fa-f]+$/.test(s)
IsHexText(s) == Len(s) > 0 /\ \A i \in 1..Len(s) : s[i] \in HexChars

\* s.replace(/[^01]/g, "")
KeepBinary(s) == SelectSeq(s, LAMBDA c : c \in BinChars)

UpperChar(c) ==
  CASE c = "a" -> "A" [] c = "b" -> "B" [] c = "c" -> "C" [] c = "d" -> "D"
    [] c = "e" -> "E" [] c = "f" -> "F" [] c = "g" -> "G" [] c = "x" -> "X"
    [] OTHER -> c

\* String.prototype.toUpperCase
ToUpperCase(s) == [i \in 1..Len(s) |-> UpperChar(s[i])]

(***************************************************************************)
(* Numbers: parseInt and Number.prototype.toString.                        *)
(***************************************************************************)
NaN == [isNaN |-> TRUE, val |-> 0]
Num(n) == [isNaN |-> FALSE, val |-> n]

\* the value of a digit character, or -1 when c is no digit of any radix <= 16
DigitVal(c) ==
  CASE c = "0" -> 0 [] c = "1" -> 1 [] c = "2" -> 2 [] c = "3" -> 3 [] c = "4" -> 4
    [] c = "5" -> 5 [] c = "6" -> 6 [] c = "7" -> 7 [] c = "8" -> 8 [] c = "9" -> 9
    [] c \in {"A", "a"} -> 10 [] c \in {"B", "b"} -> 11 [] c \in {"C", "c"} -> 12
    [] c \in {"D", "d"} -> 13 [] c \in {"E", "e"} -> 14 [] c \in {"F", "f"} -> 15
    [] OTHER -> -1

IsDigit(c, radix) == DigitVal(c) >= 0 /\ DigitVal(c) < radix

\* the number of leading characters of s that are digits of the radix
RECURSIVE DigitPrefixLen(_, _)
DigitPrefixLen(s, radix) ==
  IF s = <<>> \/ ~IsDigit(Head(s), radix) THEN 0
  ELSE 1 + DigitPrefixLen(Tail(s), radix)

\* the value of a string of digits, most significant first
RECURSIVE DigitsValue(_, _)
DigitsValue(s, radix) ==
  IF s = <<>> THEN 0
  ELSE DigitsValue(SubSeq(s, 1, Len(s) - 1), radix) * radix + DigitVal(s[Len(s)])

\* String.prototype.trim, and the white space parseInt skips
RECURSIVE TrimStart(_)
TrimStart(s) == IF s # <<>> /\ Head(s) = " " THEN TrimStart(Tail(s)) ELSE s

RECURSIVE TrimEnd(_)
TrimEnd(s) ==
  IF s # <<>> /\ s[Len(s)] = " " THEN TrimEnd(SubSeq(s, 1, Len(s) - 1)) ELSE s

Trim(s) == TrimEnd(TrimStart(s))

\* parseInt(s, radix): white space, an optional sign, then the longest prefix
\* of digits; NaN when there is no digit
ParseInt(s, radix) ==
  LET t == TrimStart(s)
      neg == t # <<>> /\ Head(t) = "-"
      u == IF t # <<>> /\ Head(t) \in {"-", "+"} THEN Tail(t) ELSE t
      n == DigitPrefixLen(u, radix)
  IN  IF n = 0 THEN NaN
      ELSE Num((IF neg THEN -1 ELSE 1) * DigitsValue(SubSeq(u, 1, n), radix))

DigitChar(d) ==
  CASE d = 0 -> "0" [] d = 1 -> "1" [] d = 2 -> "2" [] d = 3 -> "3" [] d = 4 -> "4"
    [] d = 5 -> "5" [] d = 6 -> "6" [] d = 7 -> "7" [] d = 8 -> "8" [] d = 9 -> "9"
    [] d = 10 -> "a" [] d = 11 -> "b" [] d = 12 -> "c" [] d = 13 -> "d"
    [] d = 14 -> "e" [] d = 15 -> "f"

RECURSIVE NatToString(_, _)
NatToString(n, radix) ==
  IF n < radix THEN <<DigitChar(n)>>
  ELSE Append(NatToString(n \div radix, radix), DigitChar(n % radix))

\* Number.prototype.toString(radix) of an integer
NumToString(n, radix) ==
  IF n < 0 THEN <<"-">> \o NatToString(-n, radix) ELSE NatToString(n, radix)

(***************************************************************************)
(* parseInt and toString for the radices 2 and 16 on numbers of any size   *)
(* below 2^1024.  A number is a double: an integer of more than 53         *)
(* significant bits is rounded to 53, to the nearest, a tie to even.  The  *)
(* value is kept as its binary digits, without leading zeros.              *)
(***************************************************************************)
\* the four binary digits of one hexadecimal digit
NibbleBits(c) ==
  LET v == DigitVal(c)
  IN  << DigitChar((v \div 8) % 2), DigitChar((v \div 4) % 2),
         DigitChar((v \div 2) % 2), DigitChar(v % 2) >>

\* the binary digits of a string of digits of radix 2 or 16
DigitsToBits(s, radix) ==
  IF radix = 2 THEN s
  ELSE [i \in 1..(4 * Len(s)) |-> NibbleBits(s[(i + 3) \div 4])[((i - 1) % 4) + 1]]

\* binary digits without their leading zeros; "0" for zero
StripZeros(b) ==
  LET ones == {i \in 1..Len(b) : b[i] = "1"}
  IN  IF ones = {} THEN <<"0">>
      ELSE LET first == CHOOSE i \in ones : \A j \in ones : i <= j
           IN  SubSeq(b, first, Len(b))

\* binary digits plus one
Increment(b) ==
  LET zeros == {i \in 1..Len(b) : b[i] = "0"}
  IN  IF zeros = {} THEN <<"1">> \o Repeat("0", Len(b))
      ELSE LET k == CHOOSE i \in zeros : \A j \in zeros : j <= i
           IN  [i \in 1..Len(b) |-> IF i < k THEN b[i] ELSE IF i = k THEN "1" ELSE "0"]

\* the double nearest to an integer, both as binary digits without leading
\* zeros: 53 significant bits are kept
RoundToDouble(b) ==
  IF Len(b) <= 53 THEN b
  ELSE LET m == SubSeq(b, 1, 53)
           rest == SubSeq(b, 54, Len(b))
           more == \E i \in 2..Len(rest) : rest[i] = "1"
           up == rest[1] = "1" /\ (more \/ m[53] = "1")
       IN  (IF up THEN Increment(m) ELSE m) \o Repeat("0", Len(rest))

\* parseInt(s, radix) for radix 2 or 16: white space, an optional sign, then
\* the longest prefix of digits; NaN when there is no digit
ParseNumber(s, radix) ==
  LET t == TrimStart(s)
      neg == t # <<>> /\ Head(t) = "-"
      u == IF t # <<>> /\ Head(t) \in {"-", "+"} THEN Tail(t) ELSE t
      n == DigitPrefixLen(u, radix)
  IN  IF n = 0 THEN [isNaN |-> TRUE, neg |-> FALSE, bits |-> <<>>]
      ELSE [isNaN |-> FALSE, neg |-> neg,
            bits |-> RoundToDouble(StripZeros(DigitsToBits(SubSeq(u, 1, n), radix)))]

\* the hexadecimal digits of binary digits
BitsToHex(b) ==
  LET pad == Repeat("0", (4 - (Len(b) % 4)) % 4) \o b
      bit(i) == IF pad[i] = "1" THEN 1 ELSE 0
  IN  [k \in 1..(Len(pad) \div 4) |->
         DigitChar(8 * bit(4 * k - 3) + 4 * bit(4 * k - 2) + 2 * bit(4 * k - 1) + bit(4 * k))]

\* Number.prototype.toString(radix) of the result of ParseNumber, for radix
\* 2 or 16
ParsedToString(v, radix) ==
  IF v.isNaN THEN <<"N", "a", "N">>
  ELSE (IF v.neg /\ v.bits # <<"0">> THEN <<"-">> ELSE <<>>)
         \o (IF radix = 2 THEN v.bits ELSE BitsToHex(v.bits))

(***************************************************************************)
(* The 32-bit integer operators << | & ^ of JavaScript, on integers in     *)
(* -2^31 .. 2^31 - 1.                                                      *)
(***************************************************************************)
\* ToInt32 of the result of parseInt: NaN becomes 0
ToInt32(v) == IF v.isNaN THEN 0 ELSE v.val

\* the four bytes of a 32-bit integer, least significant first
Bytes32(x) ==
  <<x % 256, (x \div 256) % 256, (x \div 65536) % 256, (x \div 16777216) % 256>>

\* the 32-bit integer of four bytes: the top bit of the last byte is the sign
FromBytes32(b) ==
  (IF b[4] >= 128 THEN b[4] - 256 ELSE b[4]) * 16777216
    + b[3] * 65536 + b[2] * 256 + b[1]

RECURSIVE And8(_, _)
And8(x, y) ==
  IF x = 0 \/ y = 0 THEN 0
  ELSE (x % 2) * (y % 2) + 2 * And8(x \div 2, y \div 2)

RECURSIVE Or8(_, _)
Or8(x, y) ==
  IF x = 0 THEN y
  ELSE IF y = 0 THEN x
  ELSE (IF (x % 2) = 1 \/ (y % 2) = 1 THEN 1 ELSE 0) + 2 * Or8(x \div 2, y \div 2)

RECURSIVE Xor8(_, _)
Xor8(x, y) ==
  IF x = 0 THEN y
  ELSE IF y = 0 THEN x
  ELSE (((x % 2) + (y % 2)) % 2) + 2 * Xor8(x \div 2, y \div 2)

\* x & y, byte by byte
And32(x, y) ==
  LET a == Bytes32(x)
      b == Bytes32(y)
  IN  FromBytes32([i \in 1..4 |-> And8(a[i], b[i])])

\* x | y
Or32(x, y) ==
  LET a == Bytes32(x)
      b == Bytes32(y)
  IN  FromBytes32([i \in 1..4 |-> Or8(a[i], b[i])])

\* x ^ y
Xor32(x, y) ==
  LET a == Bytes32(x)
      b == Bytes32(y)
  IN  FromBytes32([i \in 1..4 |-> Xor8(a[i], b[i])])

\* 2^n for n in 0..30
Pow2(n) ==
  <<1, 2, 4, 8, 16, 32, 64, 128, 256, 512, 1024, 2048, 4096, 8192, 16384, 32768,
    65536, 131072, 262144, 524288, 1048576, 2097152, 4194304, 8388608, 16777216,
    33554432, 67108864, 134217728, 268435456, 536870912, 1073741824>>[n + 1]

\* ShlN on a register of 31 bits: the bit shifted into the sign is lost
ShlNLosesSign(x, n) ==
  IF n = 0 THEN x
  ELSE IF n = 31 THEN 0
  ELSE (x % Pow2(31 - n)) * Pow2(n)

\* x << n for n in 0..31: bit 31 - n becomes the sign bit, the bits above it
\* are lost
ShlN(x, n) ==
  IF n = 0 THEN x
  ELSE IF n = 31 THEN (IF x % 2 = 1 THEN (-2147483647) - 1 ELSE 0)
  ELSE LET low == (x % Pow2(31 - n)) * Pow2(n)
           sign == (x \div Pow2(31 - n)) % 2
       IN  IF sign = 1 THEN (low - 2147483647) - 1 ELSE low

\* x << n: only the low five bits of the shift count are used
Shl32(x, n) == ShlN(x, n % 32)

\* ToInt32 of the number whose binary digits are the characters of s, as a
\* bitwise operator takes a number operand: its low 32 bits, the top one of
\* them the sign
NumberToInt32(s) ==
  LET d == [i \in 1..32 |-> IF i <= Len(s) /\ s[Len(s) - i + 1] = "1" THEN 1 ELSE 0]
      byte(k) == d[k] + 2 * d[k + 1] + 4 * d[k + 2] + 8 * d[k + 3] + 16 * d[k + 4]
                   + 32 * d[k + 5] + 64 * d[k + 6] + 128 * d[k + 7]
  IN  FromBytes32(<<byte(1), byte(9), byte(17), byte(25)>>)

\* (1 << width) - 1 as the operand of &: the subtraction is done on doubles
\* and the result converted to 32 bits
LowMask(width) ==
  LET top == Shl32(1, width)
  IN  IF top = (-2147483647) - 1 THEN 2147483647 ELSE top - 1

(***************************************************************************)
(* ProblemSolver: the registry and the pure functions.                     *)
(***************************************************************************)
\* CRC_POLYNOMIALS: polynomial, width and binaryStr of each entry
CRC_POLYNOMIALS ==
  "CRC-4" :> [polynomial |-> 19, width |-> 4, binaryStr |-> <<"1","0","0","1","1">>]
  @@ "CRC-5-ITU" :> [polynomial |-> 37, width |-> 5,
                     binaryStr |-> <<"1","0","0","1","0","1">>]
  @@ "CRC-7" :> [polynomial |-> 137, width |-> 7,
                 binaryStr |-> <<"1","0","0","0","1","0","0","1">>]
  @@ "CRC-8" :> [polynomial |-> 263, width |-> 8,
                 binaryStr |-> <<"1","0","0","0","0","0","1","1","1">>]

\* Object.keys(CRC_POLYNOMIALS)
CRCNames == DOMAIN CRC_POLYNOMIALS

\* hexToBinary(hex)
hexToBinary(hex) == PadStart(ParsedToString(ParseNumber(hex, 16), 2), Len(hex) * 4)

\* binaryToHex(binary)
binaryToHex(binary) == ToUpperCase(ParsedToString(ParseNumber(binary, 2), 16))

\* CalcStep shifting the register without taking the data bit in
CalcStepDropsBit(register, ch, polynomial, width) ==
  LET shifted == Shl32(register, 1)
  IN  IF And32(shifted, Shl32(1, width)) # 0
      THEN Xor32(shifted, polynomial)
      ELSE shifted

\* the register of calculateCRC after the shift and OR of one character
CalcShifted(register, ch) ==
  LET bit == ParseInt(<<ch>>, 10)
  IN  Or32(Shl32(register, 1), ToInt32(bit))

\* CalcStep testing bit width + 1 of the register instead of bit width
CalcStepTestsNextBit(register, ch, polynomial, width) ==
  LET shifted == CalcShifted(register, ch)
  IN  IF And32(shifted, Shl32(1, width + 1)) # 0
      THEN Xor32(shifted, polynomial)
      ELSE shifted

\* one iteration of the loop of calculateCRC: the register after bits[i]
CalcStep(register, ch, polynomial, width) ==
  LET shifted == CalcShifted(register, ch)
  IN  IF And32(shifted, Shl32(1, width)) # 0
      THEN Xor32(shifted, polynomial)
      ELSE shifted

\* the iterations i..j of the loop of calculateCRC, in order: the first half
\* of them, then the second half from the register the first half leaves
RECURSIVE CalcRange(_, _, _, _, _, _)
CalcRange(bits, i, j, register, polynomial, width) ==
  IF i > j THEN register
  ELSE IF i = j THEN CalcStep(register, bits[i], polynomial, width)
  ELSE LET mid == (i + j) \div 2
       IN  TheValue({ CalcRange(bits, mid + 1, j, r, polynomial, width) :
                        r \in {CalcRange(bits, i, mid, register, polynomial, width)} })

\* the loop of calculateCRC from index i on
CalcLoop(bits, i, register, polynomial, width) ==
  CalcRange(bits, i, Len(bits), register, polynomial, width)

\* calculateCRC without padStart: the leading zeros of the remainder are lost
calculateCRCNoPad(data, polynomial, width) ==
  LET bits == data \o Repeat("0", width)
      register == CalcLoop(bits, 1, 0, polynomial, width)
  IN  NumToString(And32(register, LowMask(width)), 2)

\* calculateCRC without the mask to the low width bits
calculateCRCNoMask(data, polynomial, width) ==
  LET bits == data \o Repeat("0", width)
      register == CalcLoop(bits, 1, 0, polynomial, width)
  IN  PadStart(NumToString(register, 2), width)

\* the string returned for the register the loop leaves
CalcResult(register, width) ==
  PadStart(NumToString(And32(register, LowMask(width)), 2), width)

\* calculateCRC(data, polynomial, width)
calculateCRC(data, polynomial, width) ==
  LET bits == data \o Repeat("0", width)
      register == CalcLoop(bits, 1, 0, polynomial, width)
  IN  CalcResult(register, width)

\* VerifyStep without the XOR with the polynomial
VerifyStepNoXor(register, ch, polynomial, width) ==
  Or32(Shl32(register, 1), ToInt32(ParseInt(<<ch>>, 10)))

\* the register of verifyCRC after the shift and OR of one character
VerifyShifted(register, ch) ==
  LET bit == ParseInt(<<ch>>, 10)
  IN  Or32(Shl32(register, 1), ToInt32(bit))

\* one iteration of the loop of verifyCRC
VerifyStep(register, ch, polynomial, width) ==
  LET shifted == VerifyShifted(register, ch)
  IN  IF And32(shifted, Shl32(1, width)) # 0
      THEN Xor32(shifted, polynomial)
      ELSE shifted

\* the iterations i..j of the loop of verifyCRC, in order
RECURSIVE VerifyRange(_, _, _, _, _, _)
VerifyRange(bits, i, j, register, polynomial, width) ==
  IF i > j THEN register
  ELSE IF i = j THEN VerifyStep(register, bits[i], polynomial, width)
  ELSE LET mid == (i + j) \div 2
       IN  TheValue({ VerifyRange(bits, mid + 1, j, r, polynomial, width) :
                        r \in {VerifyRange(bits, i, mid, register, polynomial, width)} })

\* the loop of verifyCRC from index i on
VerifyLoop(bits, i, register, polynomial, width) ==
  VerifyRange(bits, i, Len(bits), register, polynomial, width)

\* the record returned for the register the loop leaves
VerifyResult(register, width) ==
  LET remainder == PadStart(NumToString(And32(register, LowMask(width)), 2), width)
  IN  [isValid |-> remainder = Repeat("0", width), remainder |-> remainder]

\* verifyCRC(dataWithCRC, polynomial, width)
verifyCRC(dataWithCRC, polynomial, width) ==
  VerifyResult(VerifyLoop(dataWithCRC, 1, 0, polynomial, width), width)

\* the error vector built from 1 << width | 1 instead of the polynomial
ErrorBitsFromWidth(polynomial, width) ==
  PadStart(NumToString(Or32(Shl32(1, width), 1), 2), width + 1) \o Repeat("0", 3)

\* the error vector of handleGenerateErrorVector
ErrorBits(polynomial, width) ==
  PadStart(NumToString(polynomial, 2), width + 1) \o Repeat("0", 3)

(***************************************************************************)
(* CRCEncoder: constants and calculateCRC.                                 *)
(***************************************************************************)
POLYNOMIAL == 19
CRC_WIDTH == 4

\* the register of calculateCRC after the shift and OR of bits[i]
EncShifted(register, ch) == Or32(Shl32(register, 1), ToInt32(ParseInt(<<ch>>, 10)))

\* the register at the end of one iteration
EncStep(register, ch) ==
  LET shifted == EncShifted(register, ch)
  IN  IF And32(shifted, 16) # 0 THEN Xor32(shifted, POLYNOMIAL) ELSE shifted

\* the register before iteration i (1-based) of the loop
RECURSIVE EncRegisterBefore(_, _)
EncRegisterBefore(bits, i) ==
  IF i = 1 THEN 0
  ELSE TheValue({ EncStep(r, bits[i - 1]) : r \in {EncRegisterBefore(bits, i - 1)} })

\* the EncodingStep pushed by iteration i
EncodingStep(bits, i) ==
  LET shifted == EncShifted(EncRegisterBefore(bits, i), bits[i])
  IN  [ step |-> i,
        data |-> SubSeq(bits, 1, i),
        register |-> PadStart(NumToString(shifted, 2), 5),
        operation |-> IF And32(shifted, 16) # 0 THEN "XOR with polynomial"
                      ELSE "Shift left" ]

\* the crc for the register the loop leaves
EncResult(register) == PadStart(NumToString(And32(register, 15), 2), CRC_WIDTH)

\* CRCEncoder.calculateCRC(data): { crc, steps }
EncCalculateCRC(data) ==
  LET bits == data \o <<"0", "0", "0", "0">>
      register == EncRegisterBefore(bits, Len(bits) + 1)
  IN  [ crc |-> EncResult(register),
        steps |-> [i \in 1..Len(bits) |-> EncodingStep(bits, i)] ]

(***************************************************************************)
(* State.                                                                  *)
(***************************************************************************)
VARIABLES
  \* ProblemSolver (useState, lines 52-67)
  selectedCRC, inputFormat, hexInput, binaryInput, encodedResult, crcBits,
  receivedData, errorPositions, corruptedData, verificationResult,
  errorVector, undetectableError,
  \* the toast raised by the last ProblemSolver event, "none" if it raised none
  toast,
  \* CRCEncoder (useState, lines 20-25); encCrcBits is its crcBits
  inputData, encodedData, encCrcBits, steps, testData, isValid,
  \* a direct call of a pure function: its arguments and what it returned
  fnArgs, fnRet,
  \* the frame of a division that is running: its loop index and its locals
  frame,
  \* the handler that ran last and the path it took
  event

psVars == <<selectedCRC, inputFormat, hexInput, binaryInput, encodedResult, crcBits,
            receivedData, errorPositions, corruptedData, verificationResult,
            errorVector, undetectableError>>
encVars == <<inputData, encodedData, encCrcBits, steps, testData, isValid>>
fnVars == <<fnArgs, fnRet, frame>>
vars == <<psVars, toast, encVars, fnVars, event>>

\* the empty verificationResult
NoVerification == [remainder |-> <<>>, hex |-> <<>>, verdict |-> ""]

\* no call made yet
NoCall == [fn |-> "none", threw |-> "none", value |-> <<>>]

\* no division is running
NoFrame ==
  [fn |-> "none", bits |-> <<>>, i |-> 0, shifted |-> 0, register |-> 0, steps |-> <<>>]

PSInit ==
  /\ selectedCRC = "CRC-4"
  /\ inputFormat = "hex"
  /\ hexInput = <<"B", "1", "D">>
  /\ binaryInput = <<>>
  /\ encodedResult = <<>>
  /\ crcBits = <<>>
  /\ receivedData = <<>>
  /\ errorPositions = <<>>
  /\ corruptedData = <<>>
  /\ verificationResult = NoVerification
  /\ errorVector = <<>>
  /\ undetectableError = FALSE
  /\ toast = "none"

EncInit ==
  /\ inputData = <<"1", "0", "1", "0">>
  /\ encodedData = <<>>
  /\ encCrcBits = <<>>
  /\ steps = <<>>
  /\ testData = <<>>
  /\ isValid = "null"

FnIdle ==
  /\ fnArgs = [bits |-> <<>>, polynomial |-> 19, width |-> 4]
  /\ fnRet = NoCall
  /\ frame = NoFrame

Init == PSInit /\ EncInit /\ FnIdle /\ event = "init"

(***************************************************************************)
(* ProblemSolver: the events of the component.                             *)
(***************************************************************************)
\* onValueChange of the polynomial Select
SetSelectedCRC(names) ==
  \E k \in names :
    /\ selectedCRC' = k
    /\ toast' = "none"
    /\ event' = "setSelectedCRC"
    /\ UNCHANGED <<inputFormat, hexInput, binaryInput, encodedResult, crcBits,
                   receivedData, errorPositions, corruptedData, verificationResult,
                   errorVector, undetectableError, encVars, fnVars>>

\* onValueChange of the input format Select
SetInputFormat ==
  \E f \in {"hex", "binary"} :
    /\ inputFormat' = f
    /\ toast' = "none"
    /\ event' = "setInputFormat"
    /\ UNCHANGED <<selectedCRC, hexInput, binaryInput, encodedResult, crcBits,
                   receivedData, errorPositions, corruptedData, verificationResult,
                   errorVector, undetectableError, encVars, fnVars>>

\* onChange of the hexadecimal data input
SetHexInput(texts) ==
  \E t \in texts :
    /\ hexInput' = ToUpperCase(t)
    /\ toast' = "none"
    /\ event' = "setHexInput"
    /\ UNCHANGED <<selectedCRC, inputFormat, binaryInput, encodedResult, crcBits,
                   receivedData, errorPositions, corruptedData, verificationResult,
                   errorVector, undetectableError, encVars, fnVars>>

\* onChange of the binary data input
SetBinaryInput(texts) ==
  \E t \in texts :
    /\ binaryInput' = KeepBinary(t)
    /\ toast' = "none"
    /\ event' = "setBinaryInput"
    /\ UNCHANGED <<selectedCRC, inputFormat, hexInput, encodedResult, crcBits,
                   receivedData, errorPositions, corruptedData, verificationResult,
                   errorVector, undetectableError, encVars, fnVars>>

\* onChange of the Received Data input
SetReceivedData(texts) ==
  \E t \in texts :
    /\ receivedData' = KeepBinary(t)
    /\ toast' = "none"
    /\ event' = "setReceivedData"
    /\ UNCHANGED <<selectedCRC, inputFormat, hexInput, binaryInput, encodedResult,
                   crcBits, errorPositions, corruptedData, verificationResult,
                   errorVector, undetectableError, encVars, fnVars>>

\* onChange of the Error Positions input
SetErrorPositions(texts) ==
  \E t \in texts :
    /\ errorPositions' = t
    /\ toast' = "none"
    /\ event' = "setErrorPositions"
    /\ UNCHANGED <<selectedCRC, inputFormat, hexInput, binaryInput, encodedResult,
                   crcBits, receivedData, corruptedData, verificationResult,
                   errorVector, undetectableError, encVars, fnVars>>

\* the tests of handleEncode with * for + in the patterns: "" passes
EncodeInputOkOrEmpty ==
  IF inputFormat = "hex"
  THEN hexInput = <<>> \/ IsHexText(hexInput)
  ELSE binaryInput = <<>> \/ IsBinaryText(binaryInput)

\* whether handleEncode passes its test of the input
EncodeInputOk ==
  IF inputFormat = "hex" THEN IsHexText(hexInput) ELSE IsBinaryText(binaryInput)

\* binaryData of handleEncode
EncodeBinaryData == IF inputFormat = "hex" THEN hexToBinary(hexInput) ELSE binaryInput

\* handleEncode
HandleEncode ==
  /\ UNCHANGED <<selectedCRC, inputFormat, hexInput, binaryInput, errorPositions,
                 corruptedData, verificationResult, errorVector, undetectableError,
                 encVars, fnVars>>
  /\ IF ~EncodeInputOk
     THEN /\ toast' = (IF inputFormat = "hex" THEN "error: Invalid hex input"
                       ELSE "error: Invalid binary input")
          /\ event' = "handleEncode: rejected"
          /\ UNCHANGED <<crcBits, encodedResult, receivedData>>
     ELSE LET crcConfig == CRC_POLYNOMIALS[selectedCRC]
              binaryData == EncodeBinaryData
              crc == calculateCRC(binaryData, crcConfig.polynomial, crcConfig.width)
              encoded == binaryData \o crc
          IN  /\ crcBits' = crc
              /\ encodedResult' = encoded
              /\ receivedData' = encoded
              /\ toast' = "success: Data encoded successfully!"
              /\ event' = "handleEncode: encoded"

\* the index of the first "," of s, 0 when it has none
RECURSIVE CommaIndex(_, _)
CommaIndex(s, i) ==
  IF i > Len(s) THEN 0 ELSE IF s[i] = "," THEN i ELSE CommaIndex(s, i + 1)

\* s.split(",")
RECURSIVE SplitComma(_)
SplitComma(s) ==
  LET k == CommaIndex(s, 1)
  IN  IF k = 0 THEN <<s>>
      ELSE <<SubSeq(s, 1, k - 1)>> \o SplitComma(SubSeq(s, k + 1, Len(s)))

\* errorPositions.split(",").map(p => parseInt(p.trim())).filter(p => !isNaN(p))
ParsePositions(text) ==
  LET parts == SplitComma(text)
      parsed == [i \in 1..Len(parts) |-> ParseInt(Trim(parts[i]), 10)]
      kept == SelectSeq(parsed, LAMBDA v : ~v.isNaN)
  IN  [i \in 1..Len(kept) |-> kept[i].val]

\* FlipBit setting the bit to "1" instead of toggling it
FlipBitSetOnly(corruptedBits, pos) ==
  IF pos >= 0 /\ pos < Len(corruptedBits)
  THEN [corruptedBits EXCEPT ![pos + 1] = "1"]
  ELSE corruptedBits

\* FlipBit without the range test: an assignment past the end of the array
\* lengthens it, and join("") then yields one more character
FlipBitNoRange(corruptedBits, pos) ==
  IF pos >= 0 /\ pos < Len(corruptedBits)
  THEN [corruptedBits EXCEPT ![pos + 1] = IF @ = "0" THEN "1" ELSE "0"]
  ELSE IF pos >= Len(corruptedBits) THEN Append(corruptedBits, "0")
  ELSE corruptedBits

\* the body of the forEach of handleInjectError, for one position
FlipBit(corruptedBits, pos) ==
  IF pos >= 0 /\ pos < Len(corruptedBits)
  THEN [corruptedBits EXCEPT ![pos + 1] = IF @ = "0" THEN "1" ELSE "0"]
  ELSE corruptedBits

\* FlipAll taking the positions as a set: each listed position is flipped once
RECURSIVE FlipAllDistinct(_, _)
FlipAllDistinct(corruptedBits, positions) ==
  IF positions = <<>> THEN corruptedBits
  ELSE FlipAllDistinct(
         FlipBit(corruptedBits, Head(positions)),
         SelectSeq(Tail(positions), LAMBDA q : q # Head(positions)))

\* positions.forEach(...) on corruptedBits
RECURSIVE FlipAll(_, _)
FlipAll(corruptedBits, positions) ==
  IF positions = <<>> THEN corruptedBits
  ELSE FlipAll(FlipBit(corruptedBits, Head(positions)), Tail(positions))

\* the word handleInjectError corrupts
InjectTarget == encodedResult

\* the template string set as verificationResult
VerificationText(v) ==
  [ remainder |-> v.remainder,
    hex |-> binaryToHex(v.remainder),
    verdict |-> IF v.isValid THEN "Valid" ELSE "Error detected!" ]

\* handleInjectError keeping the corrupted word as the new encodedResult
HandleInjectErrorInPlace ==
  /\ UNCHANGED <<selectedCRC, inputFormat, hexInput, binaryInput, errorPositions,
                 errorVector, undetectableError, encVars, fnVars>>
  /\ IF encodedResult = <<>>
     THEN /\ toast' = "error: Please encode data first"
          /\ event' = "handleInjectError: not encoded"
          /\ UNCHANGED <<encodedResult, crcBits, receivedData, corruptedData,
                         verificationResult>>
     ELSE IF ParsePositions(errorPositions) = <<>>
     THEN /\ toast' = "error: Please enter valid bit positions (e.g., 2,3,4)"
          /\ event' = "handleInjectError: no positions"
          /\ UNCHANGED <<encodedResult, crcBits, receivedData, corruptedData,
                         verificationResult>>
     ELSE LET corrupted == FlipAll(InjectTarget, ParsePositions(errorPositions))
              crcConfig == CRC_POLYNOMIALS[selectedCRC]
          IN  /\ corruptedData' = corrupted
              /\ encodedResult' = corrupted
              /\ verificationResult' =
                   VerificationText(verifyCRC(corrupted, crcConfig.polynomial,
                                              crcConfig.width))
              /\ toast' = "info: Error injected"
              /\ event' = "handleInjectError: injected"
              /\ UNCHANGED <<crcBits, receivedData>>

\* handleInjectError
HandleInjectError ==
  /\ UNCHANGED <<selectedCRC, inputFormat, hexInput, binaryInput, errorPositions,
                 errorVector, undetectableError, encVars, fnVars>>
  /\ IF encodedResult = <<>>
     THEN /\ toast' = "error: Please encode data first"
          /\ event' = "handleInjectError: not encoded"
          /\ UNCHANGED <<encodedResult, crcBits, receivedData, corruptedData,
                         verificationResult>>
     ELSE IF ParsePositions(errorPositions) = <<>>
     THEN /\ toast' = "error: Please enter valid bit positions (e.g., 2,3,4)"
          /\ event' = "handleInjectError: no positions"
          /\ UNCHANGED <<encodedResult, crcBits, receivedData, corruptedData,
                         verificationResult>>
     ELSE LET corrupted == FlipAll(InjectTarget, ParsePositions(errorPositions))
              crcConfig == CRC_POLYNOMIALS[selectedCRC]
          IN  /\ corruptedData' = corrupted
              /\ verificationResult' =
                   VerificationText(verifyCRC(corrupted, crcConfig.polynomial,
                                              crcConfig.width))
              /\ toast' = "info: Error injected"
              /\ event' = "handleInjectError: injected"
              /\ UNCHANGED <<encodedResult, crcBits, receivedData>>

\* handleGenerateErrorVector
HandleGenerateErrorVector ==
  LET crcConfig == CRC_POLYNOMIALS[selectedCRC]
      errorBits == ErrorBits(crcConfig.polynomial, crcConfig.width)
  IN  /\ errorVector' = errorBits
      /\ undetectableError' =
           verifyCRC(errorBits, crcConfig.polynomial, crcConfig.width).isValid
      /\ toast' = "success: Error vector generated"
      /\ event' = "handleGenerateErrorVector"
      /\ UNCHANGED <<selectedCRC, inputFormat, hexInput, binaryInput, encodedResult,
                     crcBits, receivedData, errorPositions, corruptedData,
                     verificationResult, encVars, fnVars>>

(***************************************************************************)
(* CRCEncoder: the events of the component.                                *)
(***************************************************************************)
\* onChange of the encoder's data input
SetInputData(texts) ==
  \E t \in texts :
    /\ inputData' = KeepBinary(t)
    /\ event' = "setInputData"
    /\ UNCHANGED <<encodedData, encCrcBits, steps, testData, isValid,
                   psVars, toast, fnVars>>

\* onChange of the decoder's input
SetTestData(texts) ==
  \E t \in texts :
    /\ testData' = KeepBinary(t)
    /\ event' = "setTestData"
    /\ UNCHANGED <<inputData, encodedData, encCrcBits, steps, isValid,
                   psVars, toast, fnVars>>

\* CRCEncoder.handleEncode
EncHandleEncode ==
  /\ UNCHANGED <<inputData, testData, psVars, toast, fnVars>>
  /\ IF ~IsBinaryText(inputData)
     THEN /\ event' = "CRCEncoder.handleEncode: rejected"
          /\ UNCHANGED <<encCrcBits, encodedData, steps, isValid>>
     ELSE LET r == EncCalculateCRC(inputData)
          IN  /\ encCrcBits' = r.crc
              /\ encodedData' = inputData \o r.crc
              /\ steps' = r.steps
              /\ isValid' = "null"
              /\ event' = "CRCEncoder.handleEncode: encoded"

\* the index at which slice(0, -n) ends and slice(-n) starts: a negative index
\* counts from the end and stops at the start of the string
SliceCut(word, n) == IF Len(word) > n THEN Len(word) - n ELSE 0

\* EncVerdict taking the first CRC_WIDTH bits of the word as the received CRC
EncVerdictFirstBits(word) ==
  LET cut == SliceCut(word, CRC_WIDTH)
      dataWithoutCRC == SubSeq(word, 1, cut)
      receivedCRC == SubSeq(word, 1, Len(word) - cut)
  IN  receivedCRC = EncCalculateCRC(dataWithoutCRC).crc

\* the verdict of handleVerify: receivedCRC === calculatedCRC
EncVerdict(word) ==
  LET cut == SliceCut(word, CRC_WIDTH)
      dataWithoutCRC == SubSeq(word, 1, cut)
      receivedCRC == SubSeq(word, cut + 1, Len(word))
  IN  receivedCRC = EncCalculateCRC(dataWithoutCRC).crc

\* the test of handleVerify without the test of the length
EncVerifyAcceptsAnyLength(word) == IsBinaryText(word)

\* whether handleVerify accepts the word
EncVerifyAccepts(word) == IsBinaryText(word) /\ Len(word) >= CRC_WIDTH

\* CRCEncoder.handleVerify
EncHandleVerify ==
  /\ UNCHANGED <<inputData, encodedData, encCrcBits, steps, testData,
                 psVars, toast, fnVars>>
  /\ IF ~EncVerifyAccepts(testData)
     THEN /\ event' = "CRCEncoder.handleVerify: rejected"
          /\ UNCHANGED isValid
     ELSE /\ isValid' = (IF EncVerdict(testData) THEN "true" ELSE "false")
          /\ event' = "CRCEncoder.handleVerify: verified"

\* CRCEncoder.handleReset
EncHandleReset ==
  /\ inputData' = <<"1", "0", "1", "0">>
  /\ encodedData' = <<>>
  /\ encCrcBits' = <<>>
  /\ steps' = <<>>
  /\ testData' = <<>>
  /\ isValid' = "null"
  /\ event' = "CRCEncoder.handleReset"
  /\ UNCHANGED <<psVars, toast, fnVars>>

(***************************************************************************)
(* Direct calls of the pure functions.                                     *)
(***************************************************************************)
\* calculateCRC(fnArgs.bits, fnArgs.polynomial, fnArgs.width)
CallCalculateCRC ==
  /\ fnRet' = [fn |-> "calculateCRC", threw |-> "none",
               value |-> calculateCRC(fnArgs.bits, fnArgs.polynomial, fnArgs.width)]
  /\ event' = "call calculateCRC"
  /\ UNCHANGED <<fnArgs, frame, psVars, toast, encVars>>

\* verifyCRC(fnArgs.bits, fnArgs.polynomial, fnArgs.width)
CallVerifyCRC ==
  /\ fnRet' = [fn |-> "verifyCRC", threw |-> "none",
               value |-> verifyCRC(fnArgs.bits, fnArgs.polynomial, fnArgs.width)]
  /\ event' = "call verifyCRC"
  /\ UNCHANGED <<fnArgs, frame, psVars, toast, encVars>>

\* hexToBinary(fnArgs.bits)
CallHexToBinary ==
  /\ fnRet' = [fn |-> "hexToBinary", threw |-> "none", value |-> hexToBinary(fnArgs.bits)]
  /\ event' = "call hexToBinary"
  /\ UNCHANGED <<fnArgs, frame, psVars, toast, encVars>>

\* binaryToHex of the string hexToBinary returned
CallBinaryToHex ==
  /\ fnRet.fn = "hexToBinary"
  /\ fnRet' = [fn |-> "binaryToHex", threw |-> "none", value |-> binaryToHex(fnRet.value)]
  /\ event' = "call binaryToHex"
  /\ UNCHANGED <<fnArgs, frame, psVars, toast, encVars>>

(***************************************************************************)
(* A division run one loop iteration at a time.                            *)
(***************************************************************************)
\* the width the running division tests and masks with
FrameWidth == IF frame.fn = "CRCEncoder.calculateCRC" THEN CRC_WIDTH ELSE fnArgs.width

\* entry of calculateCRC, verifyCRC or CRCEncoder.calculateCRC: bits and
\* register = 0
BeginDivision ==
  /\ frame.fn = "none"
  /\ \E fn \in {"calculateCRC", "verifyCRC", "CRCEncoder.calculateCRC"} :
       frame' = [ fn |-> fn,
                  bits |-> IF fn = "calculateCRC"
                           THEN fnArgs.bits \o Repeat("0", fnArgs.width)
                           ELSE IF fn = "verifyCRC" THEN fnArgs.bits
                           ELSE fnArgs.bits \o <<"0", "0", "0", "0">>,
                  i |-> 0, shifted |-> 0, register |-> 0, steps |-> <<>> ]
  /\ fnRet' = NoCall
  /\ event' = "division: begin"
  /\ UNCHANGED <<fnArgs, psVars, toast, encVars>>

\* one iteration of the for loop: i counts the iterations done
LoopIteration ==
  /\ frame.fn # "none" /\ frame.i < Len(frame.bits)
  /\ LET ch == frame.bits[frame.i + 1]
     IN  frame' =
           IF frame.fn = "calculateCRC"
           THEN [frame EXCEPT !.i = @ + 1,
                              !.shifted = CalcShifted(frame.register, ch),
                              !.register = CalcStep(frame.register, ch,
                                                    fnArgs.polynomial, fnArgs.width)]
           ELSE IF frame.fn = "verifyCRC"
           THEN [frame EXCEPT !.i = @ + 1,
                              !.shifted = VerifyShifted(frame.register, ch),
                              !.register = VerifyStep(frame.register, ch,
                                                      fnArgs.polynomial, fnArgs.width)]
           ELSE [frame EXCEPT !.i = @ + 1,
                              !.shifted = EncShifted(frame.register, ch),
                              !.register = EncStep(frame.register, ch),
                              !.steps = Append(@, EncodingStep(frame.bits, frame.i + 1))]
  /\ event' = "division: iteration"
  /\ UNCHANGED <<fnArgs, fnRet, psVars, toast, encVars>>

\* the loop is over: the return statement
EndDivision ==
  /\ frame.fn # "none" /\ frame.i = Len(frame.bits)
  /\ fnRet' = [ fn |-> frame.fn, threw |-> "none",
                value |-> IF frame.fn = "calculateCRC"
                          THEN CalcResult(frame.register, fnArgs.width)
                          ELSE IF frame.fn = "verifyCRC"
                          THEN VerifyResult(frame.register, fnArgs.width)
                          ELSE [crc |-> EncResult(frame.register), steps |-> frame.steps] ]
  /\ frame' = NoFrame
  /\ event' = "division: return"
  /\ UNCHANGED <<fnArgs, psVars, toast, encVars>>

(***************************************************************************)
(* Inputs.                                                                 *)
(***************************************************************************)
\* hex B1D as bits, the data of the worked exercise
B1DBits == <<"1","0","1","1","0","0","0","1","1","1","0","1">>

\* bit strings given directly to the division functions
FnBits ==
  StringsUpTo(BinChars, MaxBits) \cup {B1DBits}
    \cup StringsUpTo({"0", "1", "2", "x"}, MaxDirty)

\* the registry's configurations, and two with a width outside 1..32
FnConfigs ==
  {[polynomial |-> CRC_POLYNOMIALS[k].polynomial, width |-> CRC_POLYNOMIALS[k].width] :
     k \in CRCNames}
    \cup {[polynomial |-> 19, width |-> 0], [polynomial |-> 19, width |-> 33]}

\* texts typed into the hexadecimal data input
HexTexts == {<<"B", "1", "D">>, <<"a">>, <<"G">>, <<>>}

\* texts typed into the binary data inputs
BinaryTexts == {<<"1", "0", "1", "0">>, <<"1", "x", "1">>, <<>>}

\* texts typed into the Error Positions input
PositionTexts ==
  {NumToString(d, 10) : d \in 0..MaxPosition}
    \cup { <<"2", ",", "2">>, <<"9", "9">>, <<"1", ",", "9", "9">>,
           <<" ", "3", " ", ",", "x">>, <<"-", "1">> }

(***************************************************************************)
(* Specifications.                                                         *)
(***************************************************************************)
\* SpecFn: direct calls of calculateCRC and verifyCRC on every input of FnBits
InitFn ==
  /\ PSInit /\ EncInit /\ event = "init"
  /\ fnRet = NoCall /\ frame = NoFrame
  /\ fnArgs \in {[bits |-> b, polynomial |-> c.polynomial, width |-> c.width] :
                   b \in FnBits, c \in FnConfigs}

NextFn == CallCalculateCRC \/ CallVerifyCRC

SpecFn == InitFn /\ [][NextFn]_vars

\* Spec: the error detection exercise of ProblemSolver with the preselected CRC-4
Next ==
  \/ SetInputFormat
  \/ SetBinaryInput({<<"1", "0", "1", "0">>})
  \/ HandleEncode
  \/ SetErrorPositions(PositionTexts)
  \/ HandleInjectError

Spec == Init /\ [][Next]_vars

\* SpecVector: ProblemSolver with every polynomial of the registry
NextVector ==
  \/ SetSelectedCRC(CRCNames)
  \/ SetInputFormat
  \/ HandleEncode
  \/ HandleGenerateErrorVector

SpecVector == Init /\ [][NextVector]_vars

\* SpecEncode: the encoders of both components
NextEncode ==
  \/ SetInputFormat
  \/ SetHexInput(HexTexts)
  \/ SetBinaryInput(BinaryTexts)
  \/ HandleEncode
  \/ SetInputData(BinaryTexts)
  \/ EncHandleEncode
  \/ EncHandleReset

SpecEncode == Init /\ [][NextEncode]_vars

\* words given to the two verifiers: every word of up to MaxShort bits
ShortWords == StringsUpTo(BinChars, MaxShort)

\* texts typed into the decoder's input of CRCEncoder
TestTexts ==
  { <<>>, <<"0">>, <<"1", "0", "1">>, <<"0", "0", "0", "0">>,
    <<"1", "1", "0", "1">>, <<"1", "0", "1", "0", "1", "1", "0", "1">>,
    <<"1", "0", "1", "0", "1", "1", "0", "0">>, <<"1", "x", "0">> }

\* SpecVerify: the two verification entry points, CRCEncoder.handleVerify on
\* the decoder's input and verifyCRC called with a word and a registry entry
InitVerify ==
  /\ PSInit /\ EncInit /\ event = "init"
  /\ fnRet = NoCall /\ frame = NoFrame
  /\ fnArgs \in {[bits |-> b, polynomial |-> CRC_POLYNOMIALS[k].polynomial,
                   width |-> CRC_POLYNOMIALS[k].width] :
                   b \in ShortWords, k \in CRCNames}

NextVerify == CallVerifyCRC \/ SetTestData(TestTexts) \/ EncHandleVerify

SpecVerify == InitVerify /\ [][NextVerify]_vars

\* generator polynomials of width + 1 binary digits: x^w, x^w + 1,
\* x^w + x + 1 and all ones
GeneratorsOfWidth(w) ==
  { <<"1">> \o Repeat("0", w), <<"1">> \o Repeat("0", w - 1) \o <<"1">>,
    <<"1">> \o Repeat("1", w) }
    \cup (IF w >= 2 THEN { <<"1">> \o Repeat("0", w - 2) \o <<"1", "1">> } ELSE {})

\* the generators of CRC-16-CCITT (0x11021) and CRC-32 (0x104C11DB7)
KnownGenerators ==
  { <<"1", "0","0","0","1", "0","0","0","0", "0","0","1","0", "0","0","0","1">>,
    <<"1", "0","0","0","0", "0","1","0","0", "1","1","0","0", "0","0","0","1",
           "0","0","0","1", "1","1","0","1", "1","0","1","1", "0","1","1","1">> }

\* the widths of the register that the division functions are called with
WideWidths == {1, 2, 3, 8, 16, 24, 30, 31, 32}

\* data given to the division functions with the wide generators
WideData == StringsUpTo(BinChars, MaxWideBits) \cup {B1DBits}

\* SpecWide: direct calls of calculateCRC and verifyCRC with generators of
\* up to 33 binary digits; the polynomial argument is the number itself, of
\* which the code only uses the 32 bits that ^= keeps
InitWide ==
  /\ PSInit /\ EncInit /\ event = "init"
  /\ fnRet = NoCall /\ frame = NoFrame
  /\ fnArgs \in {[bits |-> b, polynomial |-> NumberToInt32(g), width |-> Len(g) - 1] :
                   b \in WideData,
                   g \in KnownGenerators \cup UNION {GeneratorsOfWidth(w) : w \in WideWidths}}

SpecWide == InitWide /\ [][NextFn]_vars

\* hexadecimal strings given to hexToBinary: every string of up to MaxHex
\* digits, and strings of 13 and 14 digits, the latter of more than 53 bits
HexWords ==
  StringsUpTo(HexChars, MaxHex)
    \cup { <<"B", "1", "D">>, <<"0", "0", "a">>, <<"0", "0", "0">>,
           [i \in 1..13 |-> "F"], [i \in 1..14 |-> "F"],
           <<"1","F","F","F","F","F","F","F","F","F","F","F","F","F">>,
           <<"2","0","0","0","0","0","0","0","0","0","0","0","0","1">>,
           <<"2","0","0","0","0","0","0","0","0","0","0","0","0","0">> }

\* SpecHex: hexToBinary on every string of HexWords, then binaryToHex on what
\* it returned
InitHex ==
  /\ PSInit /\ EncInit /\ event = "init"
  /\ fnRet = NoCall /\ frame = NoFrame
  /\ fnArgs \in {[bits |-> h, polynomial |-> 19, width |-> 4] : h \in HexWords}

NextHex == CallHexToBinary \/ CallBinaryToHex

SpecHex == InitHex /\ [][NextHex]_vars

\* SpecSelect: ProblemSolver with the polynomial changed between encoding and
\* error injection
NextSelect ==
  \/ SetSelectedCRC(CRCNames)
  \/ SetHexInput({<<"B", "1", "D">>, <<"a">>})
  \/ HandleEncode
  \/ SetErrorPositions({<<"9", "9">>, <<"0">>})
  \/ HandleInjectError

SpecSelect == Init /\ [][NextSelect]_vars

\* texts typed into the Received Data input
ReceivedTexts ==
  { <<"1", "1", "1", "1">>, <<"1", "0", "1", "0", "1", "1", "0", "1">>,
    <<"1", "0", "2", "1">>, <<>> }

\* SpecReceived: ProblemSolver with the Received Data field edited between
\* encoding and error injection
NextReceived ==
  \/ HandleEncode
  \/ SetReceivedData(ReceivedTexts)
  \/ SetErrorPositions({<<"0">>, <<"1", ",", "2">>, <<"9", "9">>})
  \/ HandleInjectError

SpecReceived == Init /\ [][NextReceived]_vars

\* SpecDecoder: the decoder of CRCEncoder on every word of up to MaxTest bits
NextDecoder ==
  \/ SetTestData(StringsUpTo(BinChars, MaxTest) \cup TestTexts)
  \/ EncHandleVerify
  \/ EncHandleReset

SpecDecoder == Init /\ [][NextDecoder]_vars

\* SpecLoop: the three divisions run one iteration at a time, on every string
\* of up to MaxLoopBits bits with every entry of the registry
InitLoop ==
  /\ PSInit /\ EncInit /\ event = "init"
  /\ fnRet = NoCall /\ frame = NoFrame
  /\ fnArgs \in {[bits |-> b, polynomial |-> CRC_POLYNOMIALS[k].polynomial,
                   width |-> CRC_POLYNOMIALS[k].width] :
                   b \in StringsUpTo(BinChars, MaxLoopBits), k \in CRCNames}

NextLoop == BeginDivision \/ LoopIteration \/ EndDivision

SpecLoop == InitLoop /\ [][NextLoop]_vars

(***************************************************************************)
(* Reference: long division of polynomials over GF(2), on sequences of     *)
(* coefficients 0/1, most significant first.                               *)
(***************************************************************************)
CharBits(s) == [i \in 1..Len(s) |-> IF s[i] = "1" THEN 1 ELSE 0]
BitChars(b) == [i \in 1..Len(b) |-> IF b[i] = 1 THEN "1" ELSE "0"]
Zeros(n) == [i \in 1..n |-> 0]

\* cur with divisor g subtracted (XOR) at index i
RefSubtract(cur, g, i) ==
  [j \in 1..Len(cur) |->
     IF j >= i /\ j < i + Len(g) THEN (cur[j] + g[j - i + 1]) % 2 ELSE cur[j]]

\* schoolbook division: cancel each leading 1 at the indices i..j, in order
RECURSIVE RefRange(_, _, _, _)
RefRange(cur, g, i, j) ==
  IF i > j THEN cur
  ELSE IF i = j THEN (IF cur[i] = 1 THEN RefSubtract(cur, g, i) ELSE cur)
  ELSE LET mid == (i + j) \div 2
       IN  TheValue({ RefRange(c, g, mid + 1, j) : c \in {RefRange(cur, g, i, mid)} })

\* schoolbook division from index i on, as far as the divisor fits
RefReduce(cur, g, i) == RefRange(cur, g, i, Len(cur) - Len(g) + 1)

\* the remainder of dividend / g: Len(g) - 1 coefficients
RefRemainder(dividend, g) ==
  LET w == Len(g) - 1
      padded == Zeros(w) \o dividend
      r == RefReduce(padded, g, 1)
  IN  SubSeq(r, Len(r) - w + 1, Len(r))

\* whether the direct call was made with a configuration of the registry
RegistryName ==
  CHOOSE k \in CRCNames \cup {"none"} :
    IF k = "none"
    THEN \A n \in CRCNames :
           ~(CRC_POLYNOMIALS[n].polynomial = fnArgs.polynomial
             /\ CRC_POLYNOMIALS[n].width = fnArgs.width)
    ELSE /\ CRC_POLYNOMIALS[k].polynomial = fnArgs.polynomial
         /\ CRC_POLYNOMIALS[k].width = fnArgs.width

\* every character of s is '0' or '1' (s may be empty)
OnlyBits(s) == \A i \in 1..Len(s) : s[i] \in {"0", "1"}

(***************************************************************************)
(* Claims about the division functions, under SpecFn.                      *)
(***************************************************************************)
\* a direct call of fn with a registry configuration and a string of bits
RegistryCall(fn) ==
  fnRet.fn = fn /\ RegistryName # "none" /\ OnlyBits(fnArgs.bits)

\* C1: for every registry configuration and every non-empty binary string d,
\* verifyCRC(d + calculateCRC(d)) is valid and its remainder is width zeros.
C1_RoundTrip ==
  (RegistryCall("calculateCRC") /\ fnArgs.bits # <<>>) =>
    LET v == verifyCRC(fnArgs.bits \o fnRet.value, fnArgs.polynomial, fnArgs.width)
    IN  /\ v.isValid = TRUE
        /\ v.remainder = BitChars(Zeros(fnArgs.width))

\* C1 witness: the CRC-8 of the twelve bits of hex B1D was computed and the
\* codeword verifies
C1_Witness ==
  /\ RegistryCall("calculateCRC")
  /\ fnArgs.bits = B1DBits /\ fnArgs.width = 8
  /\ verifyCRC(B1DBits \o fnRet.value, 263, 8).isValid

\* C2: for every registry configuration and every binary string, calculateCRC
\* returns the remainder of the GF(2) long division of data followed by width
\* zeros by the generator, as exactly width characters '0'/'1'; for CRC-8 and
\* hex B1D the crc is 11000100 and the codeword is the 20 bits data + crc.
C2_IsRemainder ==
  /\ hexToBinary(<<"B", "1", "D">>) = B1DBits
  /\ RegistryCall("calculateCRC") =>
       LET g == CharBits(CRC_POLYNOMIALS[RegistryName].binaryStr)
           ref == RefRemainder(CharBits(fnArgs.bits) \o Zeros(fnArgs.width), g)
       IN  /\ fnRet.value = BitChars(ref)
           /\ Len(fnRet.value) = fnArgs.width
           /\ OnlyBits(fnRet.value)
           /\ (fnArgs.bits = B1DBits /\ fnArgs.width = 8) =>
                /\ fnRet.value = <<"1","1","0","0","0","1","0","0">>
                /\ Len(fnArgs.bits \o fnRet.value) = 20
                /\ CharBits(fnArgs.bits \o fnRet.value) = CharBits(B1DBits) \o ref

\* C2 witness: a remainder with a leading zero was returned for CRC-4
C2_Witness ==
  /\ RegistryCall("calculateCRC")
  /\ fnArgs.bits = B1DBits /\ fnArgs.width = 4
  /\ fnRet.value = <<"0", "0", "1", "0">>

\* word with the vector e XOR-ed in, the first bit of e at offset k (0-based)
XorAt(word, e, k) ==
  [i \in 1..Len(word) |->
     IF i > k /\ i <= k + Len(e) /\ e[i - k] = "1"
     THEN (IF word[i] = "1" THEN "0" ELSE "1")
     ELSE word[i]]

\* C5: for every registry configuration and every valid codeword c at least as
\* long as the generated vector, c with the vector XOR-ed in at any offset is a
\* different word that verifyCRC still accepts.
C5_UndetectedVector ==
  RegistryCall("calculateCRC") =>
    LET c == fnArgs.bits \o fnRet.value
        e == ErrorBits(fnArgs.polynomial, fnArgs.width)
    IN  \A k \in 0..(Len(c) - Len(e)) :
          /\ XorAt(c, e, k) # c
          /\ verifyCRC(XorAt(c, e, k), fnArgs.polynomial, fnArgs.width).isValid

\* C5 witness: a CRC-8 codeword longer than the vector, so that the vector
\* fits at more than one offset
C5_Witness ==
  /\ RegistryCall("calculateCRC")
  /\ fnArgs.bits = B1DBits /\ fnArgs.width = 8
  /\ Len(B1DBits \o fnRet.value) - Len(ErrorBits(263, 8)) = 8
  /\ verifyCRC(XorAt(B1DBits \o fnRet.value, ErrorBits(263, 8), 8), 263, 8).isValid

\* a string with a character other than '0' and '1', or a width outside 1..32
BadDivisionInput ==
  ~OnlyBits(fnArgs.bits) \/ fnArgs.width = 0 \/ fnArgs.width > 32

\* the remainder string a direct call returned
ReturnedRemainder ==
  IF fnRet.fn = "verifyCRC" THEN fnRet.value.remainder ELSE fnRet.value

\* C9 as stated: the division fails with InvalidInput for a character other
\* than '0'/'1' and with InvalidConfig for width 0 or width > 32.
C9_DivisionRejects ==
  (fnRet.fn # "none" /\ BadDivisionInput) =>
    fnRet.threw = (IF ~OnlyBits(fnArgs.bits) THEN "InvalidInput" ELSE "InvalidConfig")

\* C9 amended: calculateCRC and verifyCRC validate nothing and never fail; for
\* every string and every width from 0 up, widths above 32 included, they
\* return a string of '0'/'1' characters, of width characters, or of one
\* character when width is 0.
C9_DivisionNeverFails ==
  fnRet.fn # "none" =>
    /\ fnRet.threw = "none"
    /\ OnlyBits(ReturnedRemainder)
    /\ Len(ReturnedRemainder) = (IF fnArgs.width = 0 THEN 1 ELSE fnArgs.width)

\* C9 witness: a remainder was returned for a string with the characters
\* 'x' and '2' and for width 33
C9_Witness ==
  /\ fnRet.fn = "verifyCRC" /\ fnRet.threw = "none"
  /\ fnArgs.bits = <<"x", "2">> /\ fnArgs.width = 33
  /\ Len(fnRet.value.remainder) = 33

(***************************************************************************)
(* Claims about the error detection exercise, under Spec.                  *)
(***************************************************************************)
\* the number of times position p is listed
Occurrences(positions, p) == Cardinality({k \in 1..Len(positions) : positions[k] = p})

\* the positions (0-based) at which two words of one length differ
DiffPositions(a, b) == {i \in 0..(Len(a) - 1) : a[i + 1] # b[i + 1]}

\* the last event was an injection that went through
Injected == event = "handleInjectError: injected"

\* the position list of the last injection
InjectedPositions == ParsePositions(errorPositions)

Codeword1010 == <<"1", "0", "1", "0", "1", "1", "0", "1">>

\* C3: with CRC-4, encoding 1010 yields crc 1101 and codeword 10101101, in
\* both components, and flipping any single bit p in 0..7 of that codeword
\* makes the verification report an error.
C3_SingleBitErrors ==
  /\ EncCalculateCRC(<<"1", "0", "1", "0">>).crc = <<"1", "1", "0", "1">>
  /\ ( /\ event = "handleEncode: encoded" /\ selectedCRC = "CRC-4"
       /\ inputFormat = "binary" /\ binaryInput = <<"1", "0", "1", "0">> ) =>
       (crcBits = <<"1", "1", "0", "1">> /\ encodedResult = Codeword1010)
  /\ ( /\ Injected /\ selectedCRC = "CRC-4" /\ encodedResult = Codeword1010
       /\ Len(InjectedPositions) = 1 /\ InjectedPositions[1] \in 0..7 ) =>
       /\ DiffPositions(corruptedData, Codeword1010) = {InjectedPositions[1]}
       /\ verificationResult.verdict = "Error detected!"
       /\ verificationResult.remainder # <<"0", "0", "0", "0">>

\* C3 witness: the last bit of 10101101 was flipped and the error was detected
C3_Witness ==
  /\ Injected /\ encodedResult = Codeword1010 /\ errorPositions = <<"7">>
  /\ corruptedData = <<"1", "0", "1", "0", "1", "1", "0", "0">>
  /\ verificationResult.verdict = "Error detected!"

\* C6: a bit of the corrupted word differs from the encoded codeword exactly
\* when its position is listed an odd number of times; a list of one position
\* twice gives back the codeword.
C6_FlipParity ==
  Injected =>
    /\ Len(corruptedData) = Len(encodedResult)
    /\ DiffPositions(corruptedData, encodedResult) =
         {p \in 0..(Len(encodedResult) - 1) : Occurrences(InjectedPositions, p) % 2 = 1}
    /\ ( /\ Len(InjectedPositions) = 2
         /\ InjectedPositions[1] = InjectedPositions[2] ) =>
         corruptedData = encodedResult

\* C6 witness: position 2 was injected twice into a codeword
C6_Witness ==
  /\ Injected /\ errorPositions = <<"2", ",", "2">>
  /\ InjectedPositions = <<2, 2>>
  /\ corruptedData = encodedResult

\* whether position p lies in the word
InRange(p, word) == p >= 0 /\ p < Len(word)

\* C7: positions >= the codeword length are ignored: the corrupted word has
\* the length of the codeword, bits at positions not listed are unchanged, and
\* a list of out-of-range positions only yields the codeword unchanged, with
\* no error reported.
C7_OutOfRangeIgnored ==
  Injected =>
    /\ Len(corruptedData) = Len(encodedResult)
    /\ \A p \in DiffPositions(corruptedData, encodedResult) :
         \E k \in 1..Len(InjectedPositions) : InjectedPositions[k] = p
    /\ (\A k \in 1..Len(InjectedPositions) :
          ~InRange(InjectedPositions[k], encodedResult)) =>
         (corruptedData = encodedResult /\ toast = "info: Error injected")

\* C7 witness: position 99 alone was injected
C7_Witness ==
  /\ Injected /\ InjectedPositions = <<99>>
  /\ corruptedData = encodedResult /\ toast = "info: Error injected"

\* C7 second witness: a list with a position in range and one out of range
C7_MixedReached ==
  /\ Injected /\ InjectedPositions = <<1, 99>>
  /\ DiffPositions(corruptedData, encodedResult) = {1}

\* C8: handleInjectError leaves encodedResult, crcBits and receivedData as the
\* last handleEncode set them, whichever path it takes, and the corrupted word
\* of each call differs from encodedResult only at positions of that call.
C8_InjectKeepsInput ==
  /\ [](Injected =>
          \A p \in DiffPositions(corruptedData, encodedResult) :
            \E k \in 1..Len(InjectedPositions) : InjectedPositions[k] = p)
  /\ [][ event' \in {"handleInjectError: injected", "handleInjectError: no positions",
                     "handleInjectError: not encoded"}
         => UNCHANGED <<encodedResult, crcBits, receivedData>> ]_vars

\* C8 witness: an injection changed a bit and the encoded codeword, its crc
\* and the received data are still those of the encoding
C8_Witness ==
  /\ Injected /\ corruptedData # encodedResult
  /\ encodedResult = Codeword1010 /\ receivedData = Codeword1010
  /\ crcBits = <<"1", "1", "0", "1">>

(***************************************************************************)
(* Claim about the error vector, under SpecVector.                         *)
(***************************************************************************)
\* C4: for every registry configuration the generated vector is the
\* generator's width+1 bits followed by three zeros, verifyCRC accepts it, and
\* undetectableError is set to true.
C4_VectorUndetectable ==
  event = "handleGenerateErrorVector" =>
    LET crcConfig == CRC_POLYNOMIALS[selectedCRC]
    IN  /\ errorVector = crcConfig.binaryStr \o <<"0", "0", "0">>
        /\ Len(errorVector) = crcConfig.width + 4
        /\ verifyCRC(errorVector, crcConfig.polynomial, crcConfig.width).isValid
        /\ undetectableError = TRUE

\* C4 witness: the vector of CRC-8 was generated
C4_Witness ==
  /\ event = "handleGenerateErrorVector" /\ selectedCRC = "CRC-8"
  /\ errorVector = <<"1","0","0","0","0","0","1","1","1","0","0","0">>
  /\ undetectableError = TRUE

(***************************************************************************)
(* Claim about the encoders, under SpecEncode.                             *)
(***************************************************************************)
\* the data handleEncode of ProblemSolver would read is empty or has a
\* character that is no digit of its format
BadEncodeData ==
  IF inputFormat = "hex"
  THEN hexInput = <<>> \/ \E i \in 1..Len(hexInput) : hexInput[i] \notin HexChars
  ELSE binaryInput = <<>> \/ \E i \in 1..Len(binaryInput) : binaryInput[i] \notin BinChars

\* the data handleEncode of CRCEncoder would read is empty or not binary
EncBadEncodeData ==
  inputData = <<>> \/ \E i \in 1..Len(inputData) : inputData[i] \notin BinChars

\* C10: both handleEncode reject empty data and data with a character that is
\* no digit of the format, and a rejected encode changes no state variable.
C10_EncodeRejects ==
  /\ [][ (event' \in {"handleEncode: encoded", "handleEncode: rejected"}) =>
           /\ BadEncodeData <=> event' = "handleEncode: rejected"
           /\ BadEncodeData => /\ UNCHANGED <<psVars, encVars>>
                               /\ toast' \in {"error: Invalid hex input",
                                              "error: Invalid binary input"} ]_vars
  /\ [][ (event' \in {"CRCEncoder.handleEncode: encoded",
                      "CRCEncoder.handleEncode: rejected"}) =>
           /\ EncBadEncodeData <=> event' = "CRCEncoder.handleEncode: rejected"
           /\ EncBadEncodeData => UNCHANGED <<psVars, encVars>> ]_vars

\* C10 witness: ProblemSolver rejected the hex input "G" after an encoding,
\* and the encoding is still shown
C10_Witness ==
  /\ event = "handleEncode: rejected" /\ toast = "error: Invalid hex input"
  /\ hexInput = <<"G">> /\ encodedResult # <<>>

\* C10 second witness: CRCEncoder rejected an empty input after an encoding
C10_EncRejectReached ==
  /\ event = "CRCEncoder.handleEncode: rejected"
  /\ inputData = <<>> /\ encodedData # <<>>

(***************************************************************************)
(* Claim about words shorter than the CRC, under SpecVerify.               *)
(***************************************************************************)
\* the last event was a run of CRCEncoder.handleVerify
EncVerifyRan ==
  event \in {"CRCEncoder.handleVerify: rejected", "CRCEncoder.handleVerify: verified"}

\* C11 as stated: verification fails with InvalidInput, without a remainder
\* and a verdict, for every codeword shorter than the CRC width, in
\* CRCEncoder.handleVerify and in verifyCRC.
C11_ShortWordFails ==
  /\ (fnRet.fn = "verifyCRC" /\ Len(fnArgs.bits) < fnArgs.width) =>
       fnRet.threw = "InvalidInput"
  /\ (EncVerifyRan /\ Len(testData) < CRC_WIDTH) =>
       event = "CRCEncoder.handleVerify: rejected"

\* C11 amended: CRCEncoder.handleVerify returns without a verdict, leaving
\* isValid as it was, for every word shorter than 4 bits, and verifies a word
\* of exactly 4 bits; verifyCRC tests no length: for a word of bits shorter
\* than width it returns the word padded with zeros to width characters as
\* the remainder, and isValid exactly when the word has no '1'.
C11_ShortWordVerdicts ==
  /\ [](
         /\ (fnRet.fn = "verifyCRC" /\ Len(fnArgs.bits) < fnArgs.width) =>
            /\ fnRet.threw = "none"
            /\ fnRet.value.remainder = PadStart(fnArgs.bits, fnArgs.width)
            /\ fnRet.value.isValid = (\A i \in 1..Len(fnArgs.bits) : fnArgs.bits[i] = "0")
         /\ (fnRet.fn = "verifyCRC" /\ Len(fnArgs.bits) = fnArgs.width) =>
            /\ fnRet.threw = "none"
            /\ fnRet.value.remainder = fnArgs.bits
         /\ EncVerifyRan =>
            ((Len(testData) < CRC_WIDTH) => event = "CRCEncoder.handleVerify: rejected")
         /\ (EncVerifyRan /\ Len(testData) = CRC_WIDTH) =>
            /\ event = "CRCEncoder.handleVerify: verified"
            /\ isValid = (IF testData = <<"0", "0", "0", "0">> THEN "true" ELSE "false"))
  /\ [][ event' = "CRCEncoder.handleVerify: rejected" => isValid' = isValid ]_vars

\* C11 witness: verifyCRC returned a verdict of valid for the three bits 000
\* with CRC-4, and handleVerify rejected 101 after a verdict on another word
C11_Witness ==
  /\ fnRet.fn = "verifyCRC" /\ fnArgs.bits = <<"0", "0", "0">> /\ fnArgs.width = 4
  /\ fnRet.value.isValid = TRUE /\ fnRet.value.remainder = <<"0", "0", "0", "0">>
  /\ event = "CRCEncoder.handleVerify: rejected" /\ testData = <<"1", "0", "1">>
  /\ isValid = "true"

(***************************************************************************)
(* Claim about the width of the register, under SpecWide.                  *)
(***************************************************************************)
\* bit k (0..31) of a 32-bit integer
BitOf(p, k) == IF k = 31 THEN (IF p < 0 THEN 1 ELSE 0) ELSE (p \div Pow2(k)) % 2

\* the coefficients of the generator of the call: a leading 1 and the low
\* width bits of the polynomial
CallGenerator ==
  <<1>> \o [i \in 1..fnArgs.width |-> BitOf(fnArgs.polynomial, fnArgs.width - i)]

\* the remainder of the reference division for the call that was made
CallReference ==
  IF fnRet.fn = "calculateCRC"
  THEN RefRemainder(CharBits(fnArgs.bits) \o Zeros(fnArgs.width), CallGenerator)
  ELSE RefRemainder(CharBits(fnArgs.bits), CallGenerator)

\* C12 as stated: for every width from 1 to 32 calculateCRC and verifyCRC
\* return the exact GF(2) remainder.
C12_ExactUpTo32 ==
  (fnRet.fn # "none" /\ fnArgs.width \in 1..32) =>
    ReturnedRemainder = BitChars(CallReference)

\* C12 amended: for every width from 1 to 31 calculateCRC and verifyCRC return
\* the exact GF(2) remainder; for width 32 the tested bit 1 << 32 is bit 0 and
\* the mask is 0, and the remainder returned is 32 zeros whatever the data.
C12_ExactUpTo31 ==
  /\ (fnRet.fn # "none" /\ fnArgs.width \in 1..31) =>
       /\ ReturnedRemainder = BitChars(CallReference)
       /\ Len(ReturnedRemainder) = fnArgs.width
       /\ fnRet.fn = "verifyCRC" =>
            (fnRet.value.isValid <=> CallReference = Zeros(fnArgs.width))
  /\ (fnRet.fn # "none" /\ fnArgs.width = 32) =>
       ReturnedRemainder = Repeat("0", 32)

\* C12 witness: with width 31 the register reached bit 31, the sign bit, and
\* the remainder returned has a leading 1
C12_Witness ==
  /\ fnRet.fn = "calculateCRC" /\ fnArgs.width = 31 /\ fnArgs.polynomial < 0
  /\ fnArgs.bits = <<"1", "1", "1">>
  /\ ReturnedRemainder[1] = "1"
  /\ ReturnedRemainder = BitChars(CallReference)

(***************************************************************************)
(* Claim about the hexadecimal conversions, under SpecHex.                 *)
(***************************************************************************)
\* h in upper case without its leading zero digits; "0" when h is all zeros
HexNormalized(h) ==
  LET u == ToUpperCase(h)
      nonzero == {i \in 1..Len(u) : u[i] # "0"}
  IN  IF nonzero = {} THEN <<"0">>
      ELSE SubSeq(u, CHOOSE i \in nonzero : \A j \in nonzero : i <= j, Len(u))

\* C13: for every valid hex string h, hexToBinary(h) has exactly 4 bits per
\* hex digit, and binaryToHex(hexToBinary(h)) is h in upper case without its
\* leading zero digits.
C13_HexRoundTrip ==
  /\ (fnRet.fn = "hexToBinary" /\ IsHexText(fnArgs.bits)) =>
       (Len(fnRet.value) = 4 * Len(fnArgs.bits) /\ OnlyBits(fnRet.value))
  /\ (fnRet.fn = "binaryToHex" /\ IsHexText(fnArgs.bits)) =>
       fnRet.value = HexNormalized(fnArgs.bits)

\* the round trip holds for the strings of at most 13 digits, whose value
\* fits the 53 bits of a double
C13_HoldsUpTo13Digits ==
  (IsHexText(fnArgs.bits) /\ Len(fnArgs.bits) <= 13) => C13_HexRoundTrip

\* the 14 digits FFFFFFFFFFFFFF came back as 100000000000000
C13_LongReached ==
  /\ fnRet.fn = "binaryToHex" /\ fnArgs.bits = [i \in 1..14 |-> "F"]
  /\ fnRet.value = <<"1">> \o [i \in 1..14 |-> "0"]

(***************************************************************************)
(* Claim about the encoded codeword and the selection, under SpecSelect.   *)
(***************************************************************************)
\* the registry entry that is selected
SelectedConfig == CRC_POLYNOMIALS[selectedCRC]

\* C14: whenever encodedResult is non-empty it is a valid codeword for the
\* currently selected polynomial: verifyCRC accepts it, its crc part has the
\* selected width, and handleInjectError with no position in range reports
\* "Valid".
C14_EncodedValidForSelection ==
  encodedResult # <<>> =>
    /\ verifyCRC(encodedResult, SelectedConfig.polynomial, SelectedConfig.width).isValid
    /\ Len(encodedResult) = (Len(encodedResult) - Len(crcBits)) + SelectedConfig.width
    /\ ( /\ Injected
         /\ \A k \in 1..Len(InjectedPositions) :
              ~InRange(InjectedPositions[k], encodedResult) ) =>
         verificationResult.verdict = "Valid"

\* hex B1D was encoded with CRC-4, CRC-8 was selected, and an injection at
\* position 99 alone, which flips nothing, reported an error
C14_StaleReached ==
  /\ Injected /\ selectedCRC = "CRC-8" /\ errorPositions = <<"9", "9">>
  /\ crcBits = <<"0", "0", "1", "0">>
  /\ corruptedData = encodedResult
  /\ verificationResult.verdict = "Error detected!"

(***************************************************************************)
(* Claim about the Received Data field, under SpecReceived.                *)
(***************************************************************************)
\* C16: the word that handleInjectError corrupts and verifies is the current
\* value of receivedData: corruptedData is receivedData with the listed bits
\* flipped, and the verdict is that of verifyCRC on it.
C16_InjectsIntoReceived ==
  Injected =>
    LET corrupted == FlipAll(receivedData, InjectedPositions)
    IN  /\ corruptedData = corrupted
        /\ verificationResult.remainder =
             verifyCRC(corrupted, SelectedConfig.polynomial, SelectedConfig.width).remainder

\* the user replaced the received data by 1111 and injected an error at
\* position 0: the corrupted word is the encoded codeword with bit 0 flipped
C16_CustomIgnored ==
  /\ Injected /\ receivedData = <<"1", "1", "1", "1">> /\ errorPositions = <<"0">>
  /\ encodedResult # receivedData
  /\ corruptedData = FlipAll(encodedResult, <<0>>)

(***************************************************************************)
(* Claim about the two verification procedures, under SpecDecoder.         *)
(***************************************************************************)
\* C15: for every binary word of at least 4 bits the verdict of
\* CRCEncoder.handleVerify (the CRC of the word without its last 4 bits equals
\* those 4 bits) is isValid of verifyCRC on the whole word with polynomial
\* 10011 and width 4, also for a word of exactly 4 bits.
C15_VerifiersAgree ==
  event = "CRCEncoder.handleVerify: verified" =>
    /\ Len(testData) >= 4
    /\ isValid \in {"true", "false"}
    /\ (isValid = "true") <=> verifyCRC(testData, 19, 4).isValid

\* C15 witness: handleVerify accepted the codeword 100110, and verifyCRC
\* accepts it too
C15_Witness ==
  /\ event = "CRCEncoder.handleVerify: verified"
  /\ testData = <<"1", "0", "0", "1", "1", "0">> /\ isValid = "true"
  /\ verifyCRC(testData, 19, 4).isValid

\* C15 second witness: a word of exactly 4 bits, not all zeros, was refused by
\* both
C15_FourBitsReached ==
  /\ event = "CRCEncoder.handleVerify: verified"
  /\ testData = <<"1", "1", "0", "1">> /\ isValid = "false"
  /\ ~verifyCRC(testData, 19, 4).isValid

(***************************************************************************)
(* Claim about the register of the division loop, under SpecLoop.          *)
(***************************************************************************)
\* C17: in calculateCRC, verifyCRC and CRCEncoder.calculateCRC, for every
\* registry configuration and every binary input, the register at the end of
\* each loop iteration is in 0 .. 2^width - 1, the register right after the
\* shift and OR has at most width + 1 bits, and the final mask to the low
\* width bits discards nothing.
C17_RegisterInRange ==
  /\ frame.fn # "none" =>
       /\ frame.register >= 0 /\ frame.register < Pow2(FrameWidth)
       /\ And32(frame.register, Shl32(1, FrameWidth)) = 0
       /\ frame.shifted >= 0 /\ frame.shifted < Pow2(FrameWidth + 1)
       /\ And32(frame.register, LowMask(FrameWidth)) = frame.register
  /\ (fnRet.fn = "calculateCRC" /\ frame.fn = "none") =>
       fnRet.value = calculateCRC(fnArgs.bits, fnArgs.polynomial, fnArgs.width)
  /\ (fnRet.fn = "verifyCRC" /\ frame.fn = "none") =>
       fnRet.value = verifyCRC(fnArgs.bits, fnArgs.polynomial, fnArgs.width)
  /\ (fnRet.fn = "CRCEncoder.calculateCRC" /\ frame.fn = "none") =>
       fnRet.value = EncCalculateCRC(fnArgs.bits)

\* C17 witness: an iteration of calculateCRC with CRC-8 in which the shift
\* set bit 8 and the XOR cleared it
C17_Witness ==
  /\ frame.fn = "calculateCRC" /\ fnArgs.width = 8 /\ frame.i > 0
  /\ frame.shifted >= 256
  /\ frame.register = Xor32(frame.shifted, 263) /\ frame.register < 256

=============================================================================
